---------------------------- MODULE Spec2Model ----------------------------
(***************************************************************************)
(* A model of the csv-analyst server of src/main.py: the process state     *)
(* STATE (df, last_result, csv_path, base_dir), the module lock _lock, the *)
(* ten tool functions, and the part of the file system they touch.         *)
(*                                                                         *)
(* Each tool call is made by a worker thread.  A call is invoked (its      *)
(* arguments are bound), blocks on `with _lock:', runs its body while it   *)
(* holds the lock, and leaves the with-block, which releases the lock on a *)
(* return and on a raised exception alike.  load_csv assigns three fields  *)
(* of STATE one after the other (lines 142-144); these are separate steps. *)
(***************************************************************************)
EXTENDS Integers, Sequences, FiniteSets, TLC

(***************************************************************************)
(* Bounds of the model.                                                    *)
(***************************************************************************)
NumThreads == 2
MaxCalls   == 5

Threads == 1..NumThreads

\* An Optional value: absent, or present with a value.
None    == << >>
Some(x) == <<x>>
Get(o)  == o[1]

(***************************************************************************)
(* Paths.  A canonical absolute path is the sequence of its components;    *)
(* a path given by the caller is a record [abs, parts], where parts may    *)
(* hold "..", and "~" as the first component of a relative path.           *)
(***************************************************************************)
RootDir   == << >>
HomeDir   == <<"home", "u">>
DataDir   == <<"home", "u", "data">>
EtcDir    == <<"etc">>

\* The one symbolic link of the modelled file system: /home/u/data/lnk -> /etc
Symlinks == [p \in {<<"home", "u", "data", "lnk">>} |-> EtcDir]

\* The file names whose lower-cased text ends in ".csv" (main.py line 49).
CsvNames == {"a.csv", "b.csv", "c.csv", "s.csv", "none.csv", "out.csv", "new.CSV"}

Rel(parts) == [abs |-> FALSE, parts |-> parts]
Abs(parts) == [abs |-> TRUE, parts |-> parts]

IsPrefix(s, t) == /\ Len(s) <= Len(t)
                  /\ SubSeq(t, 1, Len(s)) = s

Parent(p) == IF Len(p) = 0 THEN p ELSE SubSeq(p, 1, Len(p) - 1)

\* Path.expanduser: a leading "~" becomes the home directory.
ExpandUser(up) ==
    IF ~up.abs /\ Len(up.parts) > 0 /\ Head(up.parts) = "~"
    THEN Abs(HomeDir \o Tail(up.parts))
    ELSE up

\* Path.resolve (non-strict) of an absolute path: components are taken left
\* to right, ".." drops the last component of the path resolved so far, and
\* a prefix that is a symbolic link is replaced by its target.
RECURSIVE ResolveFrom(_, _)
ResolveFrom(done, rest) ==
    IF rest = << >> THEN done
    ELSE LET c == Head(rest)
             step == IF c = ".." THEN Parent(done) ELSE Append(done, c)
             real == IF step \in DOMAIN Symlinks THEN Symlinks[step] ELSE step
         IN ResolveFrom(real, Tail(rest))

Resolve(parts) == ResolveFrom(<< >>, parts)

\* main.py lines 43-47 and 372-376: expanduser, then a relative path is
\* joined to the base directory, then resolve().
ResolvePath(up, base) ==
    LET p == ExpandUser(up)
    IN IF ~p.abs THEN Resolve(base \o p.parts) ELSE Resolve(p.parts)

\* str(p).lower().endswith(".csv")
EndsWithCsv(p) == Len(p) > 0 /\ p[Len(p)] \in CsvNames

\* A containment test that lets every path pass.
RelativeTo_Always(p, base) == TRUE

\* p.relative_to(base) does not raise: base is p or an ancestor of p.
RelativeTo(p, base) == IsPrefix(base, p)

(***************************************************************************)
(* Tables.  A DataFrame is a record [cols, dtypes, rows]: the column       *)
(* names in order, the dtype of each column, and the rows in order, each   *)
(* row the sequence of its cells.  A cell is the text pandas prints for    *)
(* the value; NA, the empty text, is the missing value (NaN).  A CSV file  *)
(* is a record [header, lines].                                            *)
(***************************************************************************)
NA == ""

NumStrs == <<"0", "1", "2", "3", "4", "5", "6", "7", "8", "9">>

IsNum(s) == \E i \in 1..Len(NumStrs) : NumStrs[i] = s
NumOf(s) == (CHOOSE i \in 1..Len(NumStrs) : NumStrs[i] = s) - 1
StrOf(n) == NumStrs[n + 1]

Range(s) == {s[i] : i \in 1..Len(s)}

Column(rows, i) == [r \in 1..Len(rows) |-> rows[r][i]]

\* The dtype pandas.read_csv infers for a column of cells.
InferDtype(cells) ==
    LET present == {c \in Range(cells) : c # NA}
    IN IF cells = << >> THEN "object"
       ELSE IF \A c \in present : IsNum(c)
            THEN (IF NA \in Range(cells) THEN "float64" ELSE "int64")
            ELSE "object"

\* pandas.read_csv (main.py line 140): a file with no header line raises
\* EmptyDataError; otherwise the header names the columns, every further
\* line is a row, and an empty field is the missing value.
CanReadCsv(content) == content.header # << >>

\* The name read_csv gives to the second column of a name (the names of the
\* modelled tables; no header repeats a name more than once).
DupName ==
    ("Status" :> "Status.1") @@ ("Amount" :> "Amount.1") @@ ("Name" :> "Name.1")

\* read_csv makes the column names unique: a name that occurred before in
\* the header gets the suffix ".1".
MangleDupes(header) ==
    [i \in 1..Len(header) |->
        IF \E j \in 1..(i - 1) : header[j] = header[i]
        THEN DupName[header[i]] ELSE header[i]]

ReadCsv(content) ==
    [cols   |-> MangleDupes(content.header),
     dtypes |-> [i \in 1..Len(content.header) |-> InferDtype(Column(content.lines, i))],
     rows   |-> content.lines]

\* DataFrame.to_csv(out, index=False) (main.py line 385): a header line of
\* the column names, then one line per row; a missing value is written as
\* the empty field.
ToCsv(t) == [header |-> t.cols, lines |-> t.rows]

RowCount(t) == Len(t.rows)

\* _df_to_rows (main.py lines 73-77): the first `limit' rows, none when
\* limit <= 0.
DfToRows(t, limit) ==
    IF limit <= 0 THEN << >>
    ELSE SubSeq(t.rows, 1, IF limit < Len(t.rows) THEN limit ELSE Len(t.rows))

\* The files present when the server starts.
FileA == [header |-> <<"Status", "Amount">>,
          lines  |-> << <<"Open", "1">>, <<"Closed", "2">>,
                        <<"Open", "2">>, <<NA, "1">> >>]
FileB == [header |-> <<"Name">>, lines |-> << <<"x">> >>]
FileC == [header |-> <<"Name", "Status", "Amount">>,
          lines  |-> << <<"x", "Open", "1">>, <<NA, "Open", "2">>,
                        <<"x", NA, "3">>, <<NA, "Open", "1">>,
                        <<"x", "Open", "2">> >>]
FileS == [header |-> <<"Secret">>, lines |-> << <<"7">> >>]
FileText == [header |-> <<"text">>, lines |-> << >>]

InitFiles ==
    (<<"home", "u", "data", "a.csv">> :> FileA) @@
    (<<"home", "u", "b.csv">> :> FileB) @@
    (<<"home", "u", "data", "c.csv">> :> FileC) @@
    (<<"home", "u", "notes.txt">> :> FileText) @@
    (<<"etc", "s.csv">> :> FileS) @@
    (<<"etc", "passwd">> :> FileText)

InitDirs == {RootDir, <<"home">>, HomeDir, DataDir, EtcDir}

(***************************************************************************)
(* The state.                                                              *)
(***************************************************************************)
VARIABLES
    df,           \* STATE.df: None or Some(table)
    last_result,  \* STATE.last_result: None or Some(table)
    csv_path,     \* STATE.csv_path: None or Some(canonical path)
    base_dir,     \* STATE.base_dir: a canonical path
    lock,         \* _lock is held
    files,        \* the regular files: canonical path -> content
    dirs,         \* the directories
    pc,           \* per thread: where it is in its call
    call,         \* per thread: the tool called and its arguments
    loc,          \* per thread: the locals csv_path and df of load_csv
    result,       \* per thread: what the call returns or raises
    io,           \* per thread: the file-system accesses of the call, in order
    snap,         \* per thread: STATE and the file system as they were
                  \* when the lock was acquired
    calls,        \* the number of calls made so far
    produced      \* the table made by the latest successful read/transform
                  \* operation since the latest load, or None

state == <<df, last_result, csv_path, base_dir>>
fs    == <<files, dirs>>
vars  == <<df, last_result, csv_path, base_dir, lock, files, dirs,
           pc, call, loc, result, io, snap, calls, produced>>

\* _State._default_base_dir (main.py lines 25-29): the resolved directory
\* named by CSV_MCP_BASEDIR when it is set, the resolved home otherwise.
EnvBaseDirs == {Abs(DataDir)}

DefaultBaseDirs ==
    {ResolvePath(e, RootDir) : e \in EnvBaseDirs} \cup {Resolve(HomeDir)}

NoCall   == [op |-> "none"]
NoSnap   == [state |-> << >>, files |-> << >>, dirs |-> {}]
NoLoc    == [csv_path |-> None, df |-> None]
NoResult == [kind |-> "none", raised |-> FALSE, path |-> None,
             row_count |-> 0, rows |-> << >>, scanned |-> 0]

\* A successful return, a structured error ({"ok": False, ...}) and a
\* raised exception.
Ok            == [NoResult EXCEPT !.kind = "ok"]
Failure(kind) == [NoResult EXCEPT !.kind = kind]
Raise(kind)   == [NoResult EXCEPT !.kind = kind, !.raised = TRUE]

Failed(r) == r.kind \notin {"none", "ok"}

Init ==
    /\ df = None
    /\ last_result = None
    /\ csv_path = None
    /\ base_dir \in DefaultBaseDirs
    /\ lock = FALSE
    /\ files = InitFiles
    /\ dirs = InitDirs
    /\ pc = [t \in Threads |-> "idle"]
    /\ call = [t \in Threads |-> NoCall]
    /\ loc = [t \in Threads |-> NoLoc]
    /\ result = [t \in Threads |-> NoResult]
    /\ io = [t \in Threads |-> << >>]
    /\ snap = [t \in Threads |-> NoSnap]
    /\ produced = None
    /\ calls = 0

(***************************************************************************)
(* The lock: `with _lock:' around the whole body of every tool.            *)
(***************************************************************************)
\* A thread calls a tool, one of menu: the arguments are bound and the
\* thread reaches `with _lock:'.  When the calls are counted, at most
\* MaxCalls are made.
Invoke(t, menu, counted) ==
    /\ pc[t] = "idle"
    /\ counted => calls < MaxCalls
    /\ \E c \in menu : call' = [call EXCEPT ![t] = c]
    /\ pc' = [pc EXCEPT ![t] = "waiting"]
    /\ calls' = IF counted THEN calls + 1 ELSE calls
    /\ UNCHANGED <<state, lock, fs, loc, result, io, snap, produced>>

\* Acquire as it would be with no lock to wait for.
Acquire_NoBlock(t) ==
    /\ pc[t] = "waiting"
    /\ lock' = TRUE
    /\ pc' = [pc EXCEPT ![t] = "body"]
    /\ snap' = [snap EXCEPT ![t] = [state |-> state, files |-> files, dirs |-> dirs]]
    /\ UNCHANGED <<state, fs, call, loc, result, io, calls, produced>>

\* _lock.__enter__: threading.Lock.acquire() blocks while the lock is held.
Acquire(t) ==
    /\ pc[t] = "waiting"
    /\ ~lock
    /\ lock' = TRUE
    /\ pc' = [pc EXCEPT ![t] = "body"]
    /\ snap' = [snap EXCEPT ![t] = [state |-> state, files |-> files, dirs |-> dirs]]
    /\ UNCHANGED <<state, fs, call, loc, result, io, calls, produced>>

\* Release as it would be were the lock released by a statement at the end
\* of the body, which a raised exception skips.
Release_OnReturnOnly(t) ==
    /\ pc[t] = "exit"
    /\ lock' = result[t].raised
    /\ pc' = [pc EXCEPT ![t] = "idle"]
    /\ call' = [call EXCEPT ![t] = NoCall]
    /\ loc' = [loc EXCEPT ![t] = NoLoc]
    /\ result' = [result EXCEPT ![t] = NoResult]
    /\ io' = [io EXCEPT ![t] = << >>]
    /\ snap' = [snap EXCEPT ![t] = NoSnap]
    /\ UNCHANGED <<state, fs, calls, produced>>

\* _lock.__exit__: runs when the with-block is left, by a return or by an
\* exception, and releases the lock; the call is over.
Release(t) ==
    /\ pc[t] = "exit"
    /\ lock' = FALSE
    /\ pc' = [pc EXCEPT ![t] = "idle"]
    /\ call' = [call EXCEPT ![t] = NoCall]
    /\ loc' = [loc EXCEPT ![t] = NoLoc]
    /\ result' = [result EXCEPT ![t] = NoResult]
    /\ io' = [io EXCEPT ![t] = << >>]
    /\ snap' = [snap EXCEPT ![t] = NoSnap]
    /\ UNCHANGED <<state, fs, calls, produced>>

InBody(t, op) == pc[t] = "body" /\ call[t].op = op

\* The body of a tool is over: its outcome r and the file-system accesses
\* it made are known, and the with-block is about to be left.
Leave(t, r, accesses) ==
    /\ pc' = [pc EXCEPT ![t] = "exit"]
    /\ result' = [result EXCEPT ![t] = r]
    /\ io' = [io EXCEPT ![t] = accesses]
    /\ UNCHANGED <<lock, call, snap, calls>>

(***************************************************************************)
(* set_base_directory and get_base_directory.                              *)
(***************************************************************************)
\* set_base_directory storing the path as the caller gave it.
set_base_directory_Unresolved(t) ==
    /\ InBody(t, "set_base_directory")
    /\ LET base == ResolvePath(call[t].path, RootDir)
       IN IF base \notin dirs
          THEN /\ Leave(t, Raise("NotFound"), <<"resolve", "probe">>)
               /\ UNCHANGED base_dir
          ELSE /\ base_dir' = ExpandUser(call[t].path).parts
               /\ Leave(t, [Ok EXCEPT !.path = Some(base)], <<"resolve", "probe">>)
    /\ UNCHANGED <<df, last_result, csv_path, fs, loc, produced>>

\* main.py lines 99-104.
set_base_directory(t) ==
    /\ InBody(t, "set_base_directory")
    /\ LET base == ResolvePath(call[t].path, RootDir)
       IN IF base \notin dirs
          THEN /\ Leave(t, Raise("NotFound"), <<"resolve", "probe">>)
               /\ UNCHANGED base_dir
          ELSE /\ base_dir' = base
               /\ Leave(t, [Ok EXCEPT !.path = Some(base)], <<"resolve", "probe">>)
    /\ UNCHANGED <<df, last_result, csv_path, fs, loc, produced>>

get_base_directory(t) ==
    /\ InBody(t, "get_base_directory")
    /\ Leave(t, [Ok EXCEPT !.path = Some(base_dir)], << >>)
    /\ UNCHANGED <<state, fs, loc, produced>>

(***************************************************************************)
(* load_csv.                                                               *)
(***************************************************************************)
\* _resolve_csv_path (main.py lines 35-64): the outcome, the resolved path
\* and the file-system accesses made, in the order of the code: resolve,
\* the extension test, the probes exists() and is_file(), and last the
\* containment test relative_to(base).
ResolveCsvPath(user_path, base, fls) ==
    LET p == ResolvePath(user_path, base)
    IN IF ~EndsWithCsv(p)
       THEN [kind |-> "InvalidPath", path |-> p, io |-> <<"resolve">>]
       ELSE IF p \notin DOMAIN fls
       THEN [kind |-> "NotFound", path |-> p, io |-> <<"resolve", "probe">>]
       ELSE IF ~RelativeTo(p, base)
       THEN [kind |-> "AccessDenied", path |-> p,
             io |-> <<"resolve", "probe", "contain">>]
       ELSE [kind |-> "ok", path |-> p,
             io |-> <<"resolve", "probe", "contain">>]

\* main.py lines 134-140: resolve the path and read the file into the
\* locals csv_path and df.  Both calls may raise; STATE is not yet touched.
load_csv_read(t) ==
    /\ InBody(t, "load_csv")
    /\ LET r == ResolveCsvPath(call[t].path, base_dir, files)
       IN IF r.kind # "ok"
          THEN /\ Leave(t, Raise(r.kind), r.io)
               /\ UNCHANGED loc
          ELSE IF ~CanReadCsv(files[r.path])
          THEN /\ Leave(t, Raise("ParseError"), Append(r.io, "read"))
               /\ UNCHANGED loc
          ELSE /\ loc' = [loc EXCEPT ![t] = [csv_path |-> Some(r.path),
                                            df |-> Some(ReadCsv(files[r.path]))]]
               /\ pc' = [pc EXCEPT ![t] = "load142"]
               /\ io' = [io EXCEPT ![t] = Append(r.io, "read")]
               /\ UNCHANGED <<lock, call, result, snap, calls>>
    /\ UNCHANGED <<state, fs, produced>>

\* main.py line 142: STATE.csv_path = str(csv_path)
load_csv_142(t) ==
    /\ pc[t] = "load142"
    /\ csv_path' = loc[t].csv_path
    /\ pc' = [pc EXCEPT ![t] = "load143"]
    /\ UNCHANGED <<df, last_result, base_dir, lock, fs, call, loc, result,
                   io, snap, calls, produced>>

\* load_csv without its line 143.
load_csv_143_Skipped(t) ==
    /\ pc[t] = "load143"
    /\ pc' = [pc EXCEPT ![t] = "load144"]
    /\ UNCHANGED <<df, last_result, csv_path, base_dir, lock, fs, call, loc,
                   result, io, snap, calls, produced>>

\* main.py line 143: STATE.df = df
load_csv_143(t) ==
    /\ pc[t] = "load143"
    /\ df' = loc[t].df
    /\ pc' = [pc EXCEPT ![t] = "load144"]
    /\ UNCHANGED <<last_result, csv_path, base_dir, lock, fs, call, loc,
                   result, io, snap, calls, produced>>

\* The end of load_csv without line 144.
load_csv_144_KeepsResult(t) ==
    /\ pc[t] = "load144"
    /\ Leave(t, [Ok EXCEPT !.path = csv_path,
                           !.row_count = RowCount(Get(loc[t].df)),
                           !.rows = DfToRows(Get(loc[t].df), call[t].sample_rows)],
             io[t])
    /\ UNCHANGED <<state, fs, loc, produced>>

\* main.py lines 144-151: STATE.last_result = None, and the return value.
load_csv_144(t) ==
    /\ pc[t] = "load144"
    /\ last_result' = None
    /\ produced' = None
    /\ Leave(t, [Ok EXCEPT !.path = csv_path,
                           !.row_count = RowCount(Get(loc[t].df)),
                           !.rows = DfToRows(Get(loc[t].df), call[t].sample_rows)],
             io[t])
    /\ UNCHANGED <<df, csv_path, base_dir, fs, loc>>

(***************************************************************************)
(* The tools that read the loaded table.                                   *)
(***************************************************************************)
\* _ensure_loaded (main.py lines 67-70) raises when STATE.df is None.
EnsureLoadedRaises == df = None

ColIndex(t, c) == CHOOSE i \in 1..Len(t.cols) : t.cols[i] = c
HasColumn(t, c) == c \in Range(t.cols)

\* df[columns]: the named columns, in the order of the list.
Project(t, columns) ==
    [cols   |-> columns,
     dtypes |-> [i \in 1..Len(columns) |-> t.dtypes[ColIndex(t, columns[i])]],
     rows   |-> [r \in 1..Len(t.rows) |->
                   [i \in 1..Len(columns) |-> t.rows[r][ColIndex(t, columns[i])]]]]

\* A tool that records the loaded table instead of its result.
RecordResult_RawTable(out) == last_result' = df

\* STATE.last_result = out, at the end of a read/transform tool.
RecordResult(out) == last_result' = Some(out)

\* A tool that records the rows it returns instead of its whole result.
Produce_Truncated(t, out, limit) ==
    /\ RecordResult([out EXCEPT !.rows = DfToRows(out, limit)])
    /\ produced' = Some(out)
    /\ Leave(t, [Ok EXCEPT !.row_count = RowCount(out),
                           !.rows = DfToRows(out, limit)], << >>)

\* filter_rows and groupby_aggregate succeed with the table out (main.py
\* lines 313-314 and 357-358).
Produce(t, out, limit) ==
    /\ RecordResult(out)
    /\ produced' = Some(out)
    /\ Leave(t, [Ok EXCEPT !.row_count = RowCount(out),
                           !.rows = DfToRows(out, limit)], << >>)

\* A tool that resets the last result before it validates its arguments.
Fail_ClearsResult(t, r) ==
    /\ Leave(t, r, << >>)
    /\ last_result' = None
    /\ UNCHANGED produced

\* A tool fails with outcome r before it has changed anything.
Fail(t, r) ==
    /\ Leave(t, r, << >>)
    /\ UNCHANGED <<last_result, produced>>

get_schema(t) ==
    /\ InBody(t, "get_schema")
    /\ IF EnsureLoadedRaises
       THEN Leave(t, Raise("NotLoaded"), << >>)
       ELSE Leave(t, [Ok EXCEPT !.path = csv_path,
                                !.row_count = RowCount(Get(df))], << >>)
    /\ UNCHANGED <<state, fs, loc, produced>>

preview(t) ==
    /\ InBody(t, "preview")
    /\ IF EnsureLoadedRaises
       THEN Fail(t, Raise("NotLoaded"))
       ELSE LET columns == call[t].columns
                missing == {c \in Range(columns) : ~HasColumn(Get(df), c)}
            IN IF columns # << >> /\ missing # {}
               THEN Fail(t, Failure("UnknownColumn"))
               ELSE LET out == IF columns # << >> THEN Project(Get(df), columns)
                                                     ELSE Get(df)
                    \* lines 185-186: preview reports rows, no row_count.
                    IN /\ RecordResult(out)
                       /\ produced' = Some(out)
                       /\ Leave(t, [Ok EXCEPT !.rows = DfToRows(out, call[t].rows)],
                                << >>)
    /\ UNCHANGED <<df, csv_path, base_dir, fs, loc>>

(***************************************************************************)
(* describe_numeric and value_counts.                                      *)
(***************************************************************************)
Min(S) == CHOOSE x \in S : \A y \in S : x <= y
Max(S) == CHOOSE x \in S : \A y \in S : y <= x

\* The indices of 1..n that are in keep, in increasing order.
RECURSIVE SelectIdx(_, _)
SelectIdx(n, keep) ==
    IF n = 0 THEN << >>
    ELSE IF n \in keep THEN Append(SelectIdx(n - 1, keep), n)
         ELSE SelectIdx(n - 1, keep)

NumericDtypes == {"int64", "float64"}

\* A statistic of describe() whose value the model does not compute.
Float == "float"

DescribeCols ==
    <<"column", "count", "mean", "std", "min", "25%", "50%", "75%", "max">>

\* One row of df.describe(include="number").transpose().reset_index().
DescribeRow(t, i) ==
    LET vals == {NumOf(t.rows[r][i]) : r \in {r \in 1..Len(t.rows) : t.rows[r][i] # NA}}
    IN IF vals = {}
       THEN <<t.cols[i], "0", NA, NA, NA, NA, NA, NA, NA>>
       ELSE <<t.cols[i],
              StrOf(Cardinality({r \in 1..Len(t.rows) : t.rows[r][i] # NA})),
              Float, Float, StrOf(Min(vals)), Float, Float, Float, StrOf(Max(vals))>>

NumericColumns(t) ==
    SelectIdx(Len(t.cols), {i \in 1..Len(t.cols) : t.dtypes[i] \in NumericDtypes})

\* main.py lines 196-197.
Describe(t) ==
    LET idx == NumericColumns(t)
    IN [cols   |-> DescribeCols,
        dtypes |-> [i \in 1..Len(DescribeCols) |->
                       IF i = 1 THEN "object" ELSE "float64"],
        rows   |-> [k \in 1..Len(idx) |-> DescribeRow(t, idx[k])]]

describe_numeric(t) ==
    /\ InBody(t, "describe_numeric")
    /\ IF EnsureLoadedRaises
       THEN Fail(t, Raise("NotLoaded"))
       ELSE IF NumericColumns(Get(df)) = << >>
       \* DataFrame.describe raises ValueError when no column is selected.
       THEN Fail(t, Raise("DescribeFailed"))
       ELSE /\ RecordResult(Describe(Get(df)))
            /\ produced' = Some(Describe(Get(df)))
            /\ Leave(t, [Ok EXCEPT !.row_count = RowCount(Describe(Get(df))),
                                   !.rows = Describe(Get(df)).rows], << >>)
    /\ UNCHANGED <<df, csv_path, base_dir, fs, loc>>

\* The distinct cells of a sequence in the order of their first appearance.
RECURSIVE Distinct(_)
Distinct(cells) ==
    IF cells = << >> THEN << >>
    ELSE LET front == Distinct(SubSeq(cells, 1, Len(cells) - 1))
             c == cells[Len(cells)]
         IN IF c \in Range(front) THEN front ELSE Append(front, c)

CountOf(cells, v) == Cardinality({i \in 1..Len(cells) : cells[i] = v})

\* Stable insertion of the pair x = <<value, count>> into a sequence sorted
\* by descending count.
RECURSIVE InsertDesc(_, _)
InsertDesc(sorted, x) ==
    IF sorted = << >> THEN <<x>>
    ELSE IF Head(sorted)[2] >= x[2] THEN <<Head(sorted)>> \o InsertDesc(Tail(sorted), x)
         ELSE <<x>> \o sorted

RECURSIVE SortDesc(_)
SortDesc(pairs) ==
    IF pairs = << >> THEN << >>
    ELSE InsertDesc(SortDesc(SubSeq(pairs, 1, Len(pairs) - 1)), pairs[Len(pairs)])

\* Series.head(n): the first n elements; all but the last -n when n < 0.
HeadN(s, n) ==
    IF n >= 0 THEN SubSeq(s, 1, IF n < Len(s) THEN n ELSE Len(s))
    ELSE SubSeq(s, 1, IF Len(s) + n > 0 THEN Len(s) + n ELSE 0)

\* main.py lines 218-221: the list of {value, metric}.
ValueCounts(t, column, limit, normalize, dropna) ==
    LET cells == Column(t.rows, ColIndex(t, column))
        all   == Distinct(cells)
        kept  == SelectIdx(Len(all), {i \in 1..Len(all) : ~dropna \/ all[i] # NA})
        pairs == [k \in 1..Len(kept) |-> <<all[kept[k]], CountOf(cells, all[kept[k]])>>]
        vc    == HeadN(SortDesc(pairs), limit)
    IN [k \in 1..Len(vc) |-> <<vc[k][1], IF normalize THEN Float ELSE StrOf(vc[k][2])>>]

\* pd.DataFrame(result) (main.py line 223): a list of no records makes a
\* frame with no columns.
FrameOfRecords(records, keys) ==
    IF records = << >> THEN [cols |-> << >>, dtypes |-> << >>, rows |-> << >>]
    ELSE [cols   |-> keys,
          dtypes |-> [i \in 1..Len(keys) |-> InferDtype(Column(records, i))],
          rows   |-> records]

value_counts(t) ==
    /\ InBody(t, "value_counts")
    /\ IF EnsureLoadedRaises
       THEN Fail(t, Raise("NotLoaded"))
       ELSE IF ~HasColumn(Get(df), call[t].column)
       THEN Fail(t, Failure("UnknownColumn"))
       ELSE LET res == ValueCounts(Get(df), call[t].column, call[t].limit,
                                   call[t].normalize, call[t].dropna)
                out == FrameOfRecords(res, <<"value", "metric">>)
            IN /\ RecordResult(out)
               /\ produced' = Some(out)
               /\ Leave(t, [Ok EXCEPT !.row_count = Len(res), !.rows = res], << >>)
    /\ UNCHANGED <<df, csv_path, base_dir, fs, loc>>

(***************************************************************************)
(* filter_rows.                                                            *)
(***************************************************************************)
\* The characters of the texts that occur as cells and as filter values.
Chars ==
    ("Open" :> <<"O", "p", "e", "n">>) @@
    ("Closed" :> <<"C", "l", "o", "s", "e", "d">>) @@
    ("open" :> <<"o", "p", "e", "n">>) @@
    ("OPEN" :> <<"O", "P", "E", "N">>) @@
    ("sed" :> <<"s", "e", "d">>) @@
    ("x" :> <<"x">>) @@
    [d \in Range(NumStrs) |-> <<d>>]

\* The code points of the characters, for the order of texts.
CharCode ==
    [d \in Range(NumStrs) |-> 48 + NumOf(d)] @@
    ("C" :> 67) @@ ("E" :> 69) @@ ("N" :> 78) @@ ("O" :> 79) @@ ("P" :> 80) @@
    ("d" :> 100) @@ ("e" :> 101) @@ ("l" :> 108) @@ ("n" :> 110) @@
    ("o" :> 111) @@ ("p" :> 112) @@ ("s" :> 115) @@ ("x" :> 120)

UpperToLower ==
    ("C" :> "c") @@ ("E" :> "e") @@ ("N" :> "n") @@ ("O" :> "o") @@ ("P" :> "p")

\* str.lower
Lower(cs) ==
    [i \in 1..Len(cs) |-> IF cs[i] \in DOMAIN UpperToLower
                          THEN UpperToLower[cs[i]] ELSE cs[i]]

StartsWith(cs, needle) == IsPrefix(needle, cs)
EndsWith(cs, needle) ==
    /\ Len(needle) <= Len(cs)
    /\ SubSeq(cs, Len(cs) - Len(needle) + 1, Len(cs)) = needle
Contains(cs, needle) ==
    \E i \in 0..(Len(cs) - Len(needle)) : SubSeq(cs, i + 1, i + Len(needle)) = needle

\* a < b for texts: the order of Python's str.
RECURSIVE TextLess(_, _)
TextLess(a, b) ==
    IF b = << >> THEN FALSE
    ELSE IF a = << >> THEN TRUE
    ELSE IF Head(a) = Head(b) THEN TextLess(Tail(a), Tail(b))
    ELSE CharCode[Head(a)] < CharCode[Head(b)]

\* A filter value: a number, a text, or a list of cells.
Num(s)      == [kind |-> "num", s |-> s, items |-> << >>]
Text(s)     == [kind |-> "str", s |-> s, items |-> << >>]
List(items) == [kind |-> "list", s |-> NA, items |-> items]

CompareOps == {"==", "!=", ">", ">=", "<", "<="}
TextOps    == {"contains", "startswith", "endswith"}

\* x op y for two values of one kind; less is their order.
Compare(op, eq, less) ==
    CASE op = "==" -> eq
      [] op = "!=" -> ~eq
      [] op = ">"  -> ~eq /\ ~less
      [] op = ">=" -> eq \/ ~less
      [] op = "<"  -> less
      [] op = "<=" -> eq \/ less

\* series.eq(val) ... series.le(val) (main.py lines 267-277) on one cell; a
\* missing cell satisfies only "!=".
CompareCell(dtype, cell, op, val) ==
    IF cell = NA THEN op = "!="
    ELSE IF (dtype \in NumericDtypes) # (val.kind = "num") THEN op = "!="
    ELSE IF dtype \in NumericDtypes
    THEN Compare(op, NumOf(cell) = NumOf(val.s), NumOf(cell) < NumOf(val.s))
    ELSE Compare(op, cell = val.s, TextLess(Chars[cell], Chars[val.s]))

\* The comparison raises (TypeError): an order comparison of a number with
\* a text.
CompareRaises(dtype, cells, op, val) ==
    /\ op \notin {"==", "!="}
    /\ (dtype \in NumericDtypes) # (val.kind = "num")
    /\ dtype \in NumericDtypes \/ \E c \in Range(cells) : c # NA

\* main.py lines 281-293 on one cell: na=False makes a missing cell no match.
TextMatch(cell, op, val, case_sensitive) ==
    IF cell = NA THEN FALSE
    ELSE LET hay    == IF case_sensitive THEN Chars[cell] ELSE Lower(Chars[cell])
             needle == IF case_sensitive THEN Chars[val.s] ELSE Lower(Chars[val.s])
         IN CASE op = "contains"   -> Contains(hay, needle)
              [] op = "startswith" -> StartsWith(hay, needle)
              [] op = "endswith"   -> EndsWith(hay, needle)

\* The outcome of one filter descriptor (main.py lines 257-301): a mask, one
\* Boolean per row, or the error it returns.
FilterMask(t, f) ==
    IF f.column = NA \/ ~HasColumn(t, f.column)
    THEN [kind |-> "UnknownColumn", mask |-> << >>]
    ELSE LET i     == ColIndex(t, f.column)
             cells == Column(t.rows, i)
         IN IF f.op \in CompareOps
            THEN IF CompareRaises(t.dtypes[i], cells, f.op, f.value)
                 THEN [kind |-> "ComparisonFailed", mask |-> << >>]
                 ELSE [kind |-> "ok",
                       mask |-> [r \in 1..Len(cells) |->
                                   CompareCell(t.dtypes[i], cells[r], f.op, f.value)]]
            ELSE IF f.op \in TextOps
            THEN [kind |-> "ok",
                  mask |-> [r \in 1..Len(cells) |->
                              TextMatch(cells[r], f.op, f.value, f.case_sensitive)]]
            ELSE IF f.op = "in"
            THEN IF f.value.kind # "list"
                 THEN [kind |-> "InvalidArgument", mask |-> << >>]
                 ELSE [kind |-> "ok",
                       mask |-> [r \in 1..Len(cells) |->
                                   cells[r] \in Range(f.value.items)]]
            ELSE [kind |-> "UnsupportedOperator", mask |-> << >>]

\* The loop with the two ways of combining masks exchanged.
RECURSIVE FilterLoop_Swapped(_, _, _, _, _)
FilterLoop_Swapped(t, filters, logic, k, mask) ==
    IF k > Len(filters) THEN [kind |-> "ok", mask |-> mask, scanned |-> k - 1]
    ELSE LET m == FilterMask(t, filters[k])
         IN IF m.kind # "ok" THEN [kind |-> m.kind, mask |-> None, scanned |-> k - 1]
            ELSE FilterLoop_Swapped(t, filters, logic, k + 1,
                    IF mask = None THEN Some(m.mask)
                    ELSE Some([r \in 1..Len(m.mask) |->
                                 IF logic = "and" THEN Get(mask)[r] \/ m.mask[r]
                                 ELSE Get(mask)[r] /\ m.mask[r]]))

\* The loop keeping only the mask of the latest descriptor.
RECURSIVE FilterLoop_LastOnly(_, _, _, _, _)
FilterLoop_LastOnly(t, filters, logic, k, mask) ==
    IF k > Len(filters) THEN [kind |-> "ok", mask |-> mask, scanned |-> k - 1]
    ELSE LET m == FilterMask(t, filters[k])
         IN IF m.kind # "ok" THEN [kind |-> m.kind, mask |-> None, scanned |-> k - 1]
            ELSE FilterLoop_LastOnly(t, filters, logic, k + 1, Some(m.mask))

\* The loop of main.py lines 255-306 over the descriptors from the k-th on:
\* mask is None or Some(the mask so far).  The outcome is the first error,
\* or the final mask, and the number of descriptors whose mask was computed
\* from the column's cells before the loop was left.
RECURSIVE FilterLoop(_, _, _, _, _)
FilterLoop(t, filters, logic, k, mask) ==
    IF k > Len(filters) THEN [kind |-> "ok", mask |-> mask, scanned |-> k - 1]
    ELSE LET m == FilterMask(t, filters[k])
         IN IF m.kind # "ok" THEN [kind |-> m.kind, mask |-> None, scanned |-> k - 1]
            ELSE FilterLoop(t, filters, logic, k + 1,
                    IF mask = None THEN Some(m.mask)
                    ELSE Some([r \in 1..Len(m.mask) |->
                                 IF logic = "and" THEN Get(mask)[r] /\ m.mask[r]
                                 ELSE Get(mask)[r] \/ m.mask[r]]))

\* df[mask]: the rows whose mask is true, in order.
SelectRows(t, mask) ==
    LET idx == SelectIdx(Len(t.rows), {r \in 1..Len(t.rows) : mask[r]})
    IN [t EXCEPT !.rows = [k \in 1..Len(idx) |-> t.rows[idx[k]]]]

\* filter_rows validating logic before it looks for the table.
FilterRowsError_LogicFirst(d, c) ==
    IF c.logic \notin {"and", "or"} THEN "InvalidLogic"
    ELSE IF d = None THEN "NotLoaded"
    ELSE FilterLoop(Get(d), c.filters, c.logic, 1, None).kind

\* The checks of filter_rows in the order of main.py lines 250-301: the
\* first error, or "ok".
FilterRowsError(d, c) ==
    IF d = None THEN "NotLoaded"
    ELSE IF c.logic \notin {"and", "or"} THEN "InvalidLogic"
    ELSE FilterLoop(Get(d), c.filters, c.logic, 1, None).kind

\* The number of row masks filter_rows has computed when it returns.
FilterScanned(d, c) ==
    IF d = None \/ c.logic \notin {"and", "or"} THEN 0
    ELSE FilterLoop(Get(d), c.filters, c.logic, 1, None).scanned

\* A filter that selects nothing when no mask was made.
FilterOut_NothingWithoutMask(t, mask) ==
    IF mask = None THEN [t EXCEPT !.rows = << >>] ELSE SelectRows(t, Get(mask))

\* main.py lines 308-311: the whole table when no mask was made, the rows
\* of the mask otherwise.
FilterOut(t, mask) ==
    IF mask = None THEN t ELSE SelectRows(t, Get(mask))

filter_rows(t) ==
    /\ InBody(t, "filter_rows")
    /\ LET e == FilterRowsError(df, call[t])
       IN IF e = "NotLoaded" THEN Fail(t, Raise(e))
          ELSE IF e # "ok"
          THEN Fail(t, [Failure(e) EXCEPT !.scanned = FilterScanned(df, call[t])])
          ELSE LET res == FilterLoop(Get(df), call[t].filters, call[t].logic, 1, None)
               IN Produce(t, FilterOut(Get(df), res.mask), call[t].limit)
    /\ UNCHANGED <<df, csv_path, base_dir, fs, loc>>

(***************************************************************************)
(* groupby_aggregate.                                                      *)
(***************************************************************************)
AggFns == {"sum", "mean", "min", "max", "count", "nunique"}

\* "_".join([c, f]) (main.py line 354) for the columns of the modelled files.
JoinName ==
    [c \in {"Amount"}, f \in AggFns |->
        CASE f = "sum" -> "Amount_sum" [] f = "mean" -> "Amount_mean"
          [] f = "min" -> "Amount_min" [] f = "max" -> "Amount_max"
          [] f = "count" -> "Amount_count" [] f = "nunique" -> "Amount_nunique"] @@
    [c \in {"Status"}, f \in AggFns |->
        CASE f = "sum" -> "Status_sum" [] f = "mean" -> "Status_mean"
          [] f = "min" -> "Status_min" [] f = "max" -> "Status_max"
          [] f = "count" -> "Status_count" [] f = "nunique" -> "Status_nunique"]

\* The order of the group keys: numbers by value, texts as Python orders
\* them, the missing value last (dropna=False, sort=True).
CellLess(dtype, a, b) ==
    /\ a # NA
    /\ \/ b = NA
       \/ IF dtype \in NumericDtypes THEN NumOf(a) < NumOf(b)
          ELSE TextLess(Chars[a], Chars[b])

RECURSIVE KeyLess(_, _, _)
KeyLess(dtypes, a, b) ==
    IF a = << >> THEN FALSE
    ELSE IF Head(a) = Head(b) THEN KeyLess(Tail(dtypes), Tail(a), Tail(b))
    ELSE CellLess(Head(dtypes), Head(a), Head(b))

RECURSIVE SortKeys(_, _)
SortKeys(dtypes, keys) ==
    IF keys = {} THEN << >>
    ELSE LET m == CHOOSE k \in keys : \A o \in keys \ {k} : KeyLess(dtypes, k, o)
         IN <<m>> \o SortKeys(dtypes, keys \ {m})

RECURSIVE SumOf(_)
SumOf(nums) == IF nums = << >> THEN 0 ELSE Head(nums) + SumOf(Tail(nums))

\* One aggregate of the cells of a group.
AggCell(cells, fn) ==
    LET idx  == SelectIdx(Len(cells), {i \in 1..Len(cells) : cells[i] # NA})
        vals == [k \in 1..Len(idx) |-> cells[idx[k]]]
    IN CASE fn = "count"   -> StrOf(Len(vals))
         [] fn = "nunique" -> StrOf(Cardinality(Range(vals)))
         [] fn = "sum"     -> StrOf(SumOf([k \in 1..Len(vals) |-> NumOf(vals[k])]))
         [] fn = "min"     -> IF vals = << >> THEN NA
                              ELSE StrOf(Min({NumOf(v) : v \in Range(vals)}))
         [] fn = "max"     -> IF vals = << >> THEN NA
                              ELSE StrOf(Max({NumOf(v) : v \in Range(vals)}))
         [] fn = "mean"    -> IF vals = << >> THEN NA ELSE Float

AggDtype(dtype, fn) ==
    CASE fn \in {"count", "nunique"} -> "int64"
      [] fn = "mean" -> "float64"
      [] OTHER -> dtype

\* agg_map (main.py lines 343-351) as the list of its (column, function)
\* pairs in the order of the output columns: the columns in the order of
\* their first use, the functions of a column in the order given.
AggPairs(aggregations) ==
    LET columns == Distinct([k \in 1..Len(aggregations) |-> aggregations[k].column])
        RECURSIVE Pairs(_)
        Pairs(n) ==
            IF n = 0 THEN << >>
            ELSE LET idx == SelectIdx(Len(aggregations),
                               {k \in 1..Len(aggregations) :
                                   aggregations[k].column = columns[n]})
                 IN Pairs(n - 1) \o
                    [j \in 1..Len(idx) |-> <<columns[n], aggregations[idx[j]].agg>>]
    IN Pairs(Len(columns))

\* The first error of the validation of main.py lines 339-350, or "ok".
AggValidate(t, group_columns, aggregations) ==
    IF \E c \in Range(group_columns) : ~HasColumn(t, c) THEN "UnknownColumn"
    ELSE LET bad == {k \in 1..Len(aggregations) :
                        \/ aggregations[k].column = NA
                        \/ ~HasColumn(t, aggregations[k].column)
                        \/ aggregations[k].agg \notin AggFns}
         IN IF bad = {} THEN "ok"
            ELSE LET a == aggregations[Min(bad)]
                 IN IF a.column = NA \/ ~HasColumn(t, a.column)
                    THEN "UnknownColumn"
                    ELSE "UnsupportedAggregation"

\* df.groupby(...).agg(agg_map) raises: no group key, an aggregated column
\* that is a group key, or the mean of a column of texts.
AggRaises(t, group_columns, pairs) ==
    \/ group_columns = << >>
    \/ \E k \in 1..Len(pairs) :
          \/ pairs[k][1] \in Range(group_columns)
          \/ /\ pairs[k][2] = "mean"
             /\ t.dtypes[ColIndex(t, pairs[k][1])] \notin NumericDtypes

\* The grouping as it would be with dropna=True: a row with a missing value
\* in a group column belongs to no group.
GroupAgg_DropNa(t, group_columns, pairs) ==
    LET gidx   == [i \in 1..Len(group_columns) |-> ColIndex(t, group_columns[i])]
        KeyOf(row) == [i \in 1..Len(gidx) |-> row[gidx[i]]]
        gtypes == [i \in 1..Len(gidx) |-> t.dtypes[gidx[i]]]
        keys   == SortKeys(gtypes, {k \in {KeyOf(t.rows[r]) : r \in 1..Len(t.rows)} :
                                      NA \notin Range(k)})
        Members(key) == SelectIdx(Len(t.rows),
                           {r \in 1..Len(t.rows) : KeyOf(t.rows[r]) = key})
        Cells(key, c) == [j \in 1..Len(Members(key)) |->
                            t.rows[Members(key)[j]][ColIndex(t, c)]]
    IN [cols   |-> group_columns \o
                   [k \in 1..Len(pairs) |-> JoinName[pairs[k][1], pairs[k][2]]],
        dtypes |-> gtypes \o
                   [k \in 1..Len(pairs) |->
                      AggDtype(t.dtypes[ColIndex(t, pairs[k][1])], pairs[k][2])],
        rows   |-> [g \in 1..Len(keys) |->
                      keys[g] \o [k \in 1..Len(pairs) |->
                                    AggCell(Cells(keys[g], pairs[k][1]), pairs[k][2])]]]

\* main.py lines 353-355.
GroupAgg(t, group_columns, pairs) ==
    LET gidx   == [i \in 1..Len(group_columns) |-> ColIndex(t, group_columns[i])]
        KeyOf(row) == [i \in 1..Len(gidx) |-> row[gidx[i]]]
        gtypes == [i \in 1..Len(gidx) |-> t.dtypes[gidx[i]]]
        keys   == SortKeys(gtypes, {KeyOf(t.rows[r]) : r \in 1..Len(t.rows)})
        Members(key) == SelectIdx(Len(t.rows),
                           {r \in 1..Len(t.rows) : KeyOf(t.rows[r]) = key})
        Cells(key, c) == [j \in 1..Len(Members(key)) |->
                            t.rows[Members(key)[j]][ColIndex(t, c)]]
    IN [cols   |-> group_columns \o
                   [k \in 1..Len(pairs) |-> JoinName[pairs[k][1], pairs[k][2]]],
        dtypes |-> gtypes \o
                   [k \in 1..Len(pairs) |->
                      AggDtype(t.dtypes[ColIndex(t, pairs[k][1])], pairs[k][2])],
        rows   |-> [g \in 1..Len(keys) |->
                      keys[g] \o [k \in 1..Len(pairs) |->
                                    AggCell(Cells(keys[g], pairs[k][1]), pairs[k][2])]]]

groupby_aggregate(t) ==
    /\ InBody(t, "groupby_aggregate")
    /\ IF EnsureLoadedRaises
       THEN Fail(t, Raise("NotLoaded"))
       ELSE LET v     == AggValidate(Get(df), call[t].group_columns, call[t].aggregations)
                pairs == AggPairs(call[t].aggregations)
            IN IF v # "ok" THEN Fail(t, Failure(v))
               ELSE IF AggRaises(Get(df), call[t].group_columns, pairs)
               THEN Fail(t, Raise("AggFailed"))
               ELSE Produce(t, GroupAgg(Get(df), call[t].group_columns, pairs),
                            call[t].limit)
    /\ UNCHANGED <<df, csv_path, base_dir, fs, loc>>

(***************************************************************************)
(* export_last_result.                                                     *)
(***************************************************************************)
Ancestors(p) == {SubSeq(p, 1, n) : n \in 0..Len(p)}

\* Path.mkdir(parents=True, exist_ok=True) raises when the directory or one
\* of its ancestors exists as a regular file.
MkdirRaises(d, fls) == Ancestors(d) \cap DOMAIN fls # {}

\* export_last_result making the parent directories before it looks for
\* the last result.
ExportOutcome_MkdirFirst(lr, path, base, fls, ds) ==
    LET out  == ResolvePath(path, base)
        made == IF RelativeTo(out, base) /\ ~MkdirRaises(Parent(out), fls)
                THEN ds \cup Ancestors(Parent(out)) ELSE ds
    IN IF lr = None
       THEN [result |-> Failure("NoResult"), io |-> <<"resolve", "contain", "mkdir">>,
             files |-> fls, dirs |-> made]
       ELSE IF ~RelativeTo(out, base)
       THEN [result |-> Failure("AccessDenied"), io |-> <<"resolve", "contain">>,
             files |-> fls, dirs |-> ds]
       ELSE IF MkdirRaises(Parent(out), fls)
       THEN [result |-> Raise("MkdirFailed"),
             io |-> <<"resolve", "contain", "mkdir">>,
             files |-> fls, dirs |-> ds]
       ELSE IF out \in made
       THEN [result |-> Raise("IsADirectory"),
             io |-> <<"resolve", "contain", "mkdir", "open">>,
             files |-> fls, dirs |-> made]
       ELSE [result |-> [Ok EXCEPT !.path = Some(out),
                                   !.row_count = RowCount(Get(lr))],
             io |-> <<"resolve", "contain", "mkdir", "open", "write">>,
             files |-> [p \in DOMAIN fls \cup {out} |->
                          IF p = out THEN ToCsv(Get(lr)) ELSE fls[p]],
             dirs |-> made]

\* main.py lines 369-387: the outcome of export_last_result for the last
\* result lr, the sandbox root base and the file system (fls, ds): what it
\* returns or raises, its file-system accesses, and the file system after.
ExportOutcome(lr, path, base, fls, ds) ==
    LET out  == ResolvePath(path, base)
        made == ds \cup Ancestors(Parent(out))
    IN IF lr = None
       THEN [result |-> Failure("NoResult"), io |-> << >>,
             files |-> fls, dirs |-> ds]
       ELSE IF ~RelativeTo(out, base)
       THEN [result |-> Failure("AccessDenied"), io |-> <<"resolve", "contain">>,
             files |-> fls, dirs |-> ds]
       ELSE IF MkdirRaises(Parent(out), fls)
       THEN [result |-> Raise("MkdirFailed"),
             io |-> <<"resolve", "contain", "mkdir">>,
             files |-> fls, dirs |-> ds]
       ELSE IF out \in made
       THEN [result |-> Raise("IsADirectory"),
             io |-> <<"resolve", "contain", "mkdir", "open">>,
             files |-> fls, dirs |-> made]
       ELSE [result |-> [Ok EXCEPT !.path = Some(out),
                                   !.row_count = RowCount(Get(lr))],
             io |-> <<"resolve", "contain", "mkdir", "open", "write">>,
             files |-> [p \in DOMAIN fls \cup {out} |->
                          IF p = out THEN ToCsv(Get(lr)) ELSE fls[p]],
             dirs |-> made]

\* An export that forgets the last result once it is written.
export_last_result_ConsumesResult(t) ==
    /\ InBody(t, "export_last_result")
    /\ LET o == ExportOutcome(last_result, call[t].path, base_dir, files, dirs)
       IN /\ files' = o.files
          /\ dirs' = o.dirs
          /\ last_result' = IF o.result.kind = "ok" THEN None ELSE last_result
          /\ Leave(t, o.result, o.io)
    /\ UNCHANGED <<df, csv_path, base_dir, loc, produced>>

export_last_result(t) ==
    /\ InBody(t, "export_last_result")
    /\ LET o == ExportOutcome(last_result, call[t].path, base_dir, files, dirs)
       IN /\ files' = o.files
          /\ dirs' = o.dirs
          /\ Leave(t, o.result, o.io)
    /\ UNCHANGED <<state, loc, produced>>

(***************************************************************************)
(* The calls the clients make.                                             *)
(***************************************************************************)
SetBaseCalls ==
    {[op |-> "set_base_directory", path |-> p] :
        p \in {Abs(DataDir), Rel(<<"~">>), Abs(<<"missing">>),
               Abs(<<"home", "u", "b.csv">>),
               Abs(<<"home", "u", "data", "lnk">>)}}

LoadCalls ==
    {[op |-> "load_csv", path |-> p, sample_rows |-> 10] :
        p \in {Rel(<<"data", "a.csv">>), Abs(<<"home", "u", "b.csv">>),
               Rel(<<"..", "..", "etc", "passwd">>),
               Rel(<<"..", "..", "etc", "s.csv">>),
               Rel(<<"..", "..", "etc", "none.csv">>),
               Rel(<<"data", "lnk", "s.csv">>),
               Rel(<<"notes.txt">>), Rel(<<"out.csv">>)}}

PreviewCalls ==
    {[op |-> "preview", rows |-> 2, columns |-> c] :
        c \in {<< >>, <<"Amount">>, <<"Nope">>}}
    \cup {[op |-> "preview", rows |-> 0, columns |-> <<"Status">>]}

ValueCountsCalls ==
    {[op |-> "value_counts", column |-> "Status", limit |-> 25,
      normalize |-> FALSE, dropna |-> TRUE],
     [op |-> "value_counts", column |-> "Status", limit |-> 1,
      normalize |-> FALSE, dropna |-> FALSE],
     [op |-> "value_counts", column |-> "Amount", limit |-> 0,
      normalize |-> TRUE, dropna |-> TRUE],
     [op |-> "value_counts", column |-> "Nope", limit |-> 25,
      normalize |-> FALSE, dropna |-> TRUE]}

Filter(column, op, value) ==
    [column |-> column, op |-> op, value |-> value, case_sensitive |-> FALSE]

StatusOpen   == Filter("Status", "==", Text("Open"))
AmountAbove1 == Filter("Amount", ">", Num("1"))

FilterArgs ==
    {<< << >>, "and" >>,
     << <<StatusOpen>>, "and" >>,
     << <<StatusOpen, AmountAbove1>>, "and" >>,
     << <<StatusOpen, AmountAbove1>>, "or" >>,
     << <<Filter("Status", "contains", Text("OPEN"))>>, "or" >>,
     << <<Filter("Status", "in", List(<<"Closed", NA>>))>>, "and" >>,
     << <<StatusOpen>>, "xor" >>,
     << <<Filter("Nope", "==", Text("x"))>>, "xor" >>,
     << <<StatusOpen, Filter("Nope", "==", Text("x"))>>, "and" >>,
     << <<Filter(NA, "==", Text("x"))>>, "and" >>,
     << <<Filter("Amount", ">", Text("x"))>>, "and" >>,
     << <<Filter("Status", "in", Text("Open"))>>, "and" >>,
     << <<StatusOpen, Filter("Status", "like", Text("Open"))>>, "or" >>}

FilterCalls ==
    {[op |-> "filter_rows", filters |-> a[1], logic |-> a[2], limit |-> 1] :
        a \in FilterArgs}

Agg(column, fn) == [column |-> column, agg |-> fn]

GroupArgs ==
    {<< <<"Status">>, <<Agg("Amount", "sum")>> >>,
     << <<"Status">>, <<Agg("Amount", "count"), Agg("Amount", "max")>> >>,
     << <<"Nope">>, <<Agg("Amount", "sum")>> >>,
     << <<"Status">>, <<Agg("Nope", "sum")>> >>,
     << <<"Status">>, <<Agg("Amount", "median")>> >>,
     << <<"Amount">>, <<Agg("Status", "mean")>> >>,
     << << >>, <<Agg("Amount", "sum")>> >>}

GroupCalls ==
    {[op |-> "groupby_aggregate", group_columns |-> a[1], aggregations |-> a[2],
      limit |-> 1] : a \in GroupArgs}

ExportCalls ==
    {[op |-> "export_last_result", path |-> p] :
        p \in {Rel(<<"out.csv">>), Rel(<<"sub", "out.csv">>),
               Abs(<<"etc", "out.csv">>), Rel(<<"data", "lnk", "out.csv">>),
               Rel(<<"b.csv", "out.csv">>), Rel(<< >>)}}

\* The calls of a single client.
Calls ==
    SetBaseCalls \cup {[op |-> "get_base_directory"]} \cup LoadCalls
    \cup {[op |-> "get_schema"]} \cup PreviewCalls
    \cup {[op |-> "describe_numeric"]} \cup ValueCountsCalls
    \cup FilterCalls \cup GroupCalls \cup ExportCalls

\* The calls of the clients that run concurrently: every tool, and a call
\* that raises.
ConcurrentCalls ==
    {[op |-> "set_base_directory", path |-> Abs(DataDir)],
     [op |-> "get_base_directory"],
     [op |-> "load_csv", path |-> Rel(<<"data", "a.csv">>), sample_rows |-> 10],
     [op |-> "load_csv", path |-> Abs(<<"home", "u", "b.csv">>), sample_rows |-> 10],
     [op |-> "load_csv", path |-> Rel(<<"..", "..", "etc", "passwd">>),
      sample_rows |-> 10],
     [op |-> "get_schema"],
     [op |-> "preview", rows |-> 2, columns |-> <<"Amount">>],
     [op |-> "describe_numeric"],
     [op |-> "value_counts", column |-> "Status", limit |-> 25,
      normalize |-> FALSE, dropna |-> TRUE],
     [op |-> "filter_rows", filters |-> <<StatusOpen>>, logic |-> "and",
      limit |-> 1],
     [op |-> "groupby_aggregate", group_columns |-> <<"Status">>,
      aggregations |-> <<Agg("Amount", "sum")>>, limit |-> 1],
     [op |-> "export_last_result", path |-> Rel(<<"out.csv">>)]}

\* The calls of the clients under fair scheduling, which call without end:
\* every tool, and every way of leaving a with-block: a return, a
\* structured error, an exception.
FairCalls ==
    {[op |-> "set_base_directory", path |-> Abs(<<"missing">>)],
     [op |-> "get_base_directory"],
     [op |-> "load_csv", path |-> Rel(<<"data", "a.csv">>), sample_rows |-> 10],
     [op |-> "load_csv", path |-> Rel(<<"..", "..", "etc", "passwd">>),
      sample_rows |-> 10],
     [op |-> "get_schema"],
     [op |-> "preview", rows |-> 2, columns |-> <<"Nope">>],
     [op |-> "describe_numeric"],
     [op |-> "value_counts", column |-> "Nope", limit |-> 25,
      normalize |-> FALSE, dropna |-> TRUE],
     [op |-> "filter_rows", filters |-> <<StatusOpen>>, logic |-> "xor",
      limit |-> 1],
     [op |-> "groupby_aggregate", group_columns |-> << >>,
      aggregations |-> <<Agg("Amount", "sum")>>, limit |-> 1],
     [op |-> "export_last_result", path |-> Abs(<<"etc", "out.csv">>)]}

\* The calls of a client that queries: two tables, queries of every shape
\* with limits below, at and above the sizes of their results, and exports
\* that are loaded again.
QueryLoads ==
    {[op |-> "load_csv", path |-> p, sample_rows |-> 10] :
        p \in {Abs(<<"home", "u", "data", "a.csv">>),
               Abs(<<"home", "u", "data", "c.csv">>),
               Rel(<<"out.csv">>), Rel(<<"notes.txt">>)}}

QueryPreviews ==
    {[op |-> "preview", rows |-> 2, columns |-> << >>],
     [op |-> "preview", rows |-> 0 - 1, columns |-> <<"Status">>],
     [op |-> "preview", rows |-> 10, columns |-> <<"Amount", "Amount">>]}

QueryFilterLists ==
    {<< >>,
     <<StatusOpen>>,
     <<StatusOpen, AmountAbove1>>,
     <<AmountAbove1, Filter("Status", "!=", Text("Open"))>>,
     <<Filter("Status", "in", List(<<"Closed", NA>>)),
       Filter("Amount", "<=", Num("1")),
       Filter("Status", "contains", Text("OPEN"))>>,
     <<StatusOpen, Filter("Status", "like", Text("Open"))>>}

QueryFilters ==
    {[op |-> "filter_rows", filters |-> f, logic |-> l, limit |-> 2] :
        f \in QueryFilterLists, l \in {"and", "or"}}
    \cup {[op |-> "filter_rows", filters |-> << >>, logic |-> "and", limit |-> 0],
          [op |-> "filter_rows", filters |-> <<StatusOpen>>, logic |-> "or",
           limit |-> 10]}

QueryGroups ==
    {[op |-> "groupby_aggregate", group_columns |-> g,
      aggregations |-> <<Agg("Amount", "sum"), Agg("Amount", "count")>>,
      limit |-> n] :
        g \in {<<"Status">>, <<"Name", "Status">>}, n \in {0, 2, 10}}

QueryCalls ==
    {[op |-> "set_base_directory", path |-> Abs(DataDir)],
     [op |-> "get_base_directory"], [op |-> "get_schema"],
     [op |-> "describe_numeric"],
     [op |-> "value_counts", column |-> "Amount", limit |-> 0,
      normalize |-> FALSE, dropna |-> TRUE],
     [op |-> "export_last_result", path |-> Rel(<<"out.csv">>)],
     [op |-> "export_last_result", path |-> Rel(<<"notes.txt">>)]}
    \cup QueryLoads \cup QueryPreviews \cup QueryFilters \cup QueryGroups

Steps(t) ==
    \/ Acquire(t)
    \/ set_base_directory(t)
    \/ get_base_directory(t)
    \/ load_csv_read(t)
    \/ load_csv_142(t)
    \/ load_csv_143(t)
    \/ load_csv_144(t)
    \/ get_schema(t)
    \/ preview(t)
    \/ describe_numeric(t)
    \/ value_counts(t)
    \/ filter_rows(t)
    \/ groupby_aggregate(t)
    \/ export_last_result(t)
    \/ Release(t)

\* Concurrent clients.
Next == \E t \in Threads : Invoke(t, ConcurrentCalls, TRUE) \/ Steps(t)

Spec == Init /\ [][Next]_vars

\* One client at a time, with the full menu of calls.
SeqNext == Invoke(1, Calls, TRUE) \/ Steps(1)

SeqSpec == Init /\ [][SeqNext]_vars

\* One client that queries.
QueryNext == Invoke(1, QueryCalls, TRUE) \/ Steps(1)

QuerySpec == Init /\ [][QueryNext]_vars

\* The lock is acquired infinitely often by a thread that keeps waiting for
\* it while it is released again and again, and a thread that can take a
\* step of its call takes it.
Fairness == \A t \in Threads : WF_vars(Steps(t)) /\ SF_vars(Acquire(t))

FairNext == \E t \in Threads : Invoke(t, FairCalls, FALSE) \/ Steps(t)

FairSpec == Init /\ [][FairNext]_vars /\ Fairness

(***************************************************************************)
(* The claims.                                                             *)
(***************************************************************************)
\* The thread is inside a with-block: it holds the lock.
InCritical(t) == pc[t] \in {"body", "load142", "load143", "load144", "exit"}

\* The thread is in load_csv between its first and its last write to STATE.
MidLoad(t) == pc[t] \in {"load143", "load144"}

AtExit(t, op) == pc[t] = "exit" /\ call[t].op = op

\* The path a load or export call resolves to, and whether it lies in the
\* sandbox: base_dir is the path or an ancestor of it.
Target(t) == ResolvePath(call[t].path, base_dir)
Inside(p) == Len(base_dir) <= Len(p) /\ SubSeq(p, 1, Len(base_dir)) = base_dir

\* C1: at most one tool call at a time is inside its with-block; a call
\* that starts its body finds STATE exactly as it was when it acquired the
\* lock, and no other call is then between two writes of load_csv.
C1_MutualExclusion ==
    /\ Cardinality({t \in Threads : InCritical(t)}) <= 1
    /\ \A t \in Threads : pc[t] = "body" => state = snap[t].state
    /\ \A t, u \in Threads : t # u /\ MidLoad(t) => ~InCritical(u)

\* C1 witness: load_csv has replaced df and not yet cleared last_result,
\* while another call is blocked on the lock.
C1_Witness ==
    \E t, u \in Threads :
        /\ pc[t] = "load144" /\ last_result # None /\ df # snap[t].state[1]
        /\ pc[u] = "waiting"

\* C2: the lock is held exactly while a call is inside its with-block, so
\* every exit path has released it; a call inside its with-block cannot
\* acquire the lock again; and every call that waits for the lock gets it
\* and completes.
C2_LockReleased ==
    /\ [](lock <=> \E t \in Threads : InCritical(t))
    /\ [](\A t \in Threads : InCritical(t) => ~ENABLED Acquire(t))
    /\ \A t \in Threads : (pc[t] = "waiting") ~> (pc[t] = "idle")

\* C2 witness: a call leaves its with-block by a raised exception while
\* another call is blocked on the lock.
C2_Witness ==
    \E t, u \in Threads :
        pc[t] = "exit" /\ result[t].raised /\ pc[u] = "waiting"

\* C3: a call that fails, by a structured error or by an exception, leaves
\* df, last_result, csv_path and base_dir as they were before the call.
C3_FailureKeepsState ==
    \A t \in Threads :
        pc[t] = "exit" /\ Failed(result[t]) => state = snap[t].state

\* C3 witness: a comparison fails in filter_rows while a table is loaded
\* and a last result is present.
C3_Witness ==
    \E t \in Threads :
        /\ AtExit(t, "filter_rows") /\ result[t].kind = "ComparisonFailed"
        /\ df # None /\ last_result # None

\* C4: when load_csv succeeds, df is the table read from the resolved path,
\* csv_path is that path and last_result is absent; while the three fields
\* are being replaced the loader holds the lock and no other call is inside
\* its with-block.
C4_LoadReplaces ==
    /\ \A t \in Threads :
          AtExit(t, "load_csv") /\ result[t].kind = "ok" =>
              /\ Target(t) \in DOMAIN files
              /\ df = Some(ReadCsv(files[Target(t)]))
              /\ csv_path = Some(Target(t))
              /\ last_result = None
    /\ \A t \in Threads :
          pc[t] \in {"load142", "load143", "load144"} =>
              lock /\ \A u \in Threads \ {t} : ~InCritical(u)

\* C4 witness: a load succeeds that replaces another table and clears a
\* last result.
C4_Witness ==
    \E t \in Threads :
        /\ AtExit(t, "load_csv") /\ result[t].kind = "ok"
        /\ snap[t].state[1] # None /\ snap[t].state[1] # df
        /\ snap[t].state[2] # None

\* C5: a successful export_last_result writes the table made by the latest
\* successful preview, describe_numeric, value_counts, filter_rows or
\* groupby_aggregate since the latest load, and reports its row count.
C5_ExportsLatestResult ==
    \A t \in Threads :
        AtExit(t, "export_last_result") /\ result[t].kind = "ok" =>
            /\ produced # None
            /\ files[Get(result[t].path)] = ToCsv(Get(produced))
            /\ result[t].row_count = RowCount(Get(produced))

\* C5 witness: the exported table is not the loaded table.
C5_Witness ==
    \E t \in Threads :
        /\ AtExit(t, "export_last_result") /\ result[t].kind = "ok"
        /\ produced # df
        /\ RowCount(Get(produced)) # RowCount(Get(df))

\* C6: export_last_result called while last_result is absent fails with the
\* no-result error, makes no file-system access and leaves the files and
\* the directories as they were.
C6_NoResult ==
    \A t \in Threads :
        AtExit(t, "export_last_result") /\ snap[t].state[2] = None =>
            /\ result[t] = Failure("NoResult")
            /\ io[t] = << >>
            /\ files = snap[t].files /\ dirs = snap[t].dirs

\* C6 witness: the export into a directory that does not exist fails for
\* want of a result after a table was loaded.
C6_Witness ==
    \E t \in Threads :
        /\ AtExit(t, "export_last_result") /\ result[t].kind = "NoResult"
        /\ df # None
        /\ Parent(Target(t)) \notin dirs /\ Inside(Target(t))

ReadingTools ==
    {"get_schema", "preview", "describe_numeric", "value_counts",
     "filter_rows", "groupby_aggregate"}

\* C7: while no table is loaded, each tool that reads the table raises the
\* not-loaded error, whatever its arguments.
C7_NotLoaded ==
    \A t \in Threads :
        pc[t] = "exit" /\ call[t].op \in ReadingTools /\ snap[t].state[1] = None =>
            result[t] = Raise("NotLoaded")

\* C7 witness: filter_rows with an invalid logic and an unknown column,
\* called before any load.
C7_Witness ==
    \E t \in Threads :
        /\ AtExit(t, "filter_rows") /\ df = None
        /\ call[t].logic \notin {"and", "or"}
        /\ \E k \in 1..Len(call[t].filters) : call[t].filters[k].column = "Nope"

\* A load call read its file; an export call changed the file system.
DidRead(t)  == AtExit(t, "load_csv") /\ "read" \in Range(io[t])
DidWrite(t) == AtExit(t, "export_last_result")
               /\ (files # snap[t].files \/ dirs # snap[t].dirs)

C9_EscapeDenied ==
    \A t \in Threads :
        AtExit(t, "load_csv") =>
            /\ ~Inside(Target(t)) => result[t].kind = "AccessDenied"
            /\ Inside(Target(t)) /\ ~EndsWithCsv(Target(t)) =>
                  result[t].kind = "InvalidPath"

\* The position of the first access of a kind in a call's accesses, or 0.
FirstOf(accesses, kinds) ==
    IF \E i \in 1..Len(accesses) : accesses[i] \in kinds
    THEN Min({i \in 1..Len(accesses) : accesses[i] \in kinds})
    ELSE 0

\* C10: in load_csv and export_last_result no probe, read, mkdir, open or
\* write of the target happens before the containment test.
C10_CheckBeforeIO ==
    \A t \in Threads :
        pc[t] = "exit" /\ call[t].op \in {"load_csv", "export_last_result"} =>
            LET touch == FirstOf(io[t], {"probe", "read", "mkdir", "open", "write"})
                test  == FirstOf(io[t], {"contain"})
            IN touch # 0 => test # 0 /\ test < touch


(***************************************************************************)
(* Validation and scanning.                                                *)
(***************************************************************************)
ValidationErrors ==
    {"UnknownColumn", "UnsupportedOperator", "UnsupportedAggregation",
     "InvalidArgument"}

\* C11: when filter_rows or groupby_aggregate returns a validation error,
\* no row mask has been computed: the error was found before any data was
\* scanned.
C11_ValidateBeforeScan ==
    \A t \in Threads :
        /\ pc[t] = "exit"
        /\ call[t].op \in {"filter_rows", "groupby_aggregate"}
        /\ result[t].kind \in ValidationErrors
        => result[t].scanned = 0


(***************************************************************************)
(* The sandbox root.                                                       *)
(***************************************************************************)
\* A path is canonical: no "..", no "~", and no prefix is a symbolic link.
Canonical(p) ==
    /\ \A i \in 1..Len(p) : p[i] \notin {"..", "~"}
    /\ \A n \in 1..Len(p) : SubSeq(p, 1, n) \notin DOMAIN Symlinks

\* What a finished set_base_directory call has done.
SetBaseOutcome(t) ==
    LET dir == ResolvePath(call[t].path, RootDir)
    IN /\ <<df, last_result, csv_path>> = SubSeq(snap[t].state, 1, 3)
       /\ IF dir \in dirs
          THEN /\ result[t].kind = "ok"
               /\ base_dir = dir /\ Canonical(base_dir)
          ELSE /\ result[t] = Raise("NotFound")
               /\ base_dir = snap[t].state[4]

\* What a finished load_csv or export_last_result call has resolved and
\* tested its path against: the root in force.
UsesRoot(t) ==
    /\ result[t].kind = "ok" =>
          result[t].path = Some(Target(t)) /\ Inside(Target(t))
    /\ result[t].kind = "AccessDenied" => ~Inside(Target(t))

\* C12: set_base_directory fails with not-found and keeps base_dir when the
\* directory does not exist; when it succeeds base_dir is the canonical new
\* directory, replaced in the one step that ends the call, the table, its
\* path and the last result are as before, and every load and export after
\* it resolves and tests its path against the new root.
C12_SetBaseDirectory ==
    /\ [](\A t \in Threads :
            /\ AtExit(t, "set_base_directory") => SetBaseOutcome(t)
            /\ pc[t] = "exit" /\ call[t].op \in {"load_csv", "export_last_result"}
                  => UsesRoot(t))
    /\ [][base_dir' # base_dir =>
            \E t \in Threads : /\ InBody(t, "set_base_directory")
                               /\ pc'[t] = "exit"
                               /\ result'[t].kind = "ok"]_vars

\* C12 witness: the root was moved, through a symbolic link, away from the
\* directory of the loaded table while a last result is present.
C12_Witness ==
    \E t \in Threads :
        /\ AtExit(t, "set_base_directory") /\ result[t].kind = "ok"
        /\ call[t].path = Abs(<<"home", "u", "data", "lnk">>)
        /\ df # None /\ last_result # None
        /\ ~Inside(Get(csv_path))


(***************************************************************************)
(* Export and load.                                                        *)
(***************************************************************************)
\* The file a load_csv call named held, when the call began, the export of
\* the last result of that moment.
LoadsExport(t) ==
    /\ AtExit(t, "load_csv")
    /\ snap[t].state[2] # None
    /\ Target(t) \in DOMAIN snap[t].files
    /\ snap[t].files[Target(t)] = ToCsv(Get(snap[t].state[2]))

\* C13: a load_csv of the file that holds the export of the last result
\* succeeds, and the table it loads has the row count and the column set of
\* that last result.
C13_RoundTrip ==
    \A t \in Threads :
        LoadsExport(t) =>
            /\ result[t].kind = "ok"
            /\ RowCount(Get(df)) = RowCount(Get(snap[t].state[2]))
            /\ Range(Get(df).cols) = Range(Get(snap[t].state[2]).cols)


(***************************************************************************)
(* filter_rows.                                                            *)
(***************************************************************************)
\* The first min(limit, Len(rows)) of rows; none when limit <= 0.
FirstRows(rows, limit) ==
    [k \in 1..Min({Max({limit, 0}), Len(rows)}) |-> rows[k]]

\* C14: filter_rows with no filter and logic "and" or "or" selects every
\* row: row_count is the row count of the loaded table, the rows returned
\* are its first min(limit, row_count) rows, and last_result is the whole
\* table.
C14_EmptyFilter ==
    \A t \in Threads :
        /\ AtExit(t, "filter_rows") /\ df # None
        /\ call[t].filters = << >> /\ call[t].logic \in {"and", "or"}
        => /\ result[t].kind = "ok"
           /\ result[t].row_count = Len(Get(df).rows)
           /\ result[t].rows = FirstRows(Get(df).rows, call[t].limit)
           /\ last_result = df

\* C14 witness: no filter, logic "or", and a limit below the size of the
\* table, after another result was recorded.
C14_Witness ==
    \E t \in Threads :
        /\ AtExit(t, "filter_rows") /\ df # None
        /\ call[t].filters = << >> /\ call[t].logic = "or"
        /\ 0 < call[t].limit /\ call[t].limit < Len(Get(df).rows)
        /\ snap[t].state[2] \notin {None, df}

\* The rows of table t, by position, that filter_rows selects for a filter
\* list and a logic.
Selected(t, filters, logic) ==
    LET res == FilterLoop(t, filters, logic, 1, None)
    IN IF res.mask = None THEN 1..Len(t.rows)
       ELSE {r \in 1..Len(t.rows) : Get(res.mask)[r]}

\* The rows of t at the positions of idx, in the order of t.
RowsAt(t, idx) ==
    LET order == SelectIdx(Len(t.rows), idx)
    IN [k \in 1..Len(order) |-> t.rows[order[k]]]

\* A filter_rows call has succeeded on the loaded table.
Filtered(t) == AtExit(t, "filter_rows") /\ result[t].kind = "ok"

\* C15: when filter_rows succeeds, the rows it selects with logic "and" are
\* among the rows it selects with logic "or" for the same filter list; the
\* table it records is made of the rows selected with the logic of the call.
C15_AndWithinOr ==
    \A t \in Threads :
        Filtered(t) =>
            /\ Selected(Get(df), call[t].filters, "and")
                  \subseteq Selected(Get(df), call[t].filters, "or")
            /\ Get(last_result).rows =
                  RowsAt(Get(df), Selected(Get(df), call[t].filters, call[t].logic))

\* C15 witness: a list of several filters for which "and" selects some rows
\* and "or" selects more.
C15_Witness ==
    \E t \in Threads :
        /\ Filtered(t) /\ Len(call[t].filters) > 1
        /\ Selected(Get(df), call[t].filters, "and") # {}
        /\ Selected(Get(df), call[t].filters, "and")
              # Selected(Get(df), call[t].filters, "or")

\* Row r of table t satisfies the descriptor f.
Satisfies(t, f, r) == FilterMask(t, f).mask[r]

\* The rows of t, by position, that satisfy every descriptor of the list
\* (logic "and") or at least one (logic "or").
Matching(t, filters, logic) ==
    {r \in 1..Len(t.rows) :
        IF logic = "and"
        THEN \A k \in 1..Len(filters) : Satisfies(t, filters[k], r)
        ELSE \E k \in 1..Len(filters) : Satisfies(t, filters[k], r)}

\* C16: for a non-empty list of valid descriptors filter_rows selects, with
\* logic "and", the rows that satisfy every descriptor and, with logic "or",
\* the rows that satisfy at least one; the rows of the result are in the
\* order of the loaded table, and row_count is their number.
C16_FilterSemantics ==
    \A t \in Threads :
        Filtered(t) /\ call[t].filters # << >> =>
            LET want == Matching(Get(df), call[t].filters, call[t].logic)
            IN /\ Get(last_result).rows = RowsAt(Get(df), want)
               /\ Get(last_result).cols = Get(df).cols
               /\ result[t].row_count = Cardinality(want)

\* C16 witness: three descriptors under "or", of which the last alone would
\* select other rows than the three together.
C16_Witness ==
    \E t \in Threads :
        /\ Filtered(t) /\ Len(call[t].filters) = 3 /\ call[t].logic = "or"
        /\ Matching(Get(df), call[t].filters, "or")
              # Matching(Get(df), <<call[t].filters[3]>>, "or")
        /\ Matching(Get(df), call[t].filters, "or")
              # Matching(Get(df), call[t].filters, "and")


(***************************************************************************)
(* groupby_aggregate.  Limits.                                             *)
(***************************************************************************)
\* The combinations of values that the rows of t have in the columns of
\* group_columns, the missing value counted as a value.
GroupKeys(t, group_columns) ==
    {[i \in 1..Len(group_columns) |-> t.rows[r][ColIndex(t, group_columns[i])]] :
        r \in 1..Len(t.rows)}

Grouped(t) == AtExit(t, "groupby_aggregate") /\ result[t].kind = "ok"

\* C17: the result of groupby_aggregate has one row for each combination of
\* group-column values of the loaded table, the rows with a missing value in
\* a group column forming groups of their own; row_count is the number of
\* the combinations.
C17_GroupPerKey ==
    \A t \in Threads :
        Grouped(t) =>
            LET g    == call[t].group_columns
                out  == Get(last_result).rows
                keys == GroupKeys(Get(df), g)
            IN /\ {SubSeq(out[k], 1, Len(g)) : k \in 1..Len(out)} = keys
               /\ Len(out) = Cardinality(keys)
               /\ result[t].row_count = Cardinality(keys)

\* C17 witness: two group columns, both with missing values.
C17_Witness ==
    \E t \in Threads :
        /\ Grouped(t) /\ Len(call[t].group_columns) = 2
        /\ \E k \in GroupKeys(Get(df), call[t].group_columns) : k[1] = NA
        /\ \E k \in GroupKeys(Get(df), call[t].group_columns) : k[2] = NA


(***************************************************************************)
(* The life of the table.                                                  *)
(***************************************************************************)
\* C18: df changes only by line 143 of load_csv and csv_path only by
\* line 142; a step of any other tool, successful or not, leaves both as
\* they are; and a last result that is present becomes absent only by the
\* last step of a load_csv that succeeds.
C18_OnlyLoadChangesTable ==
    [][/\ df' # df => \E t \in Threads : pc[t] = "load143"
       /\ csv_path' # csv_path => \E t \in Threads : pc[t] = "load142"
       /\ \A t \in Threads :
             pc[t] = "body" /\ pc'[t] = "exit" /\ call[t].op # "load_csv"
             => df' = df /\ csv_path' = csv_path
       /\ last_result # None /\ last_result' = None =>
             \E t \in Threads : /\ pc[t] = "load144" /\ pc'[t] = "exit"
                                /\ call[t].op = "load_csv"
                                /\ result'[t].kind = "ok"]_vars

\* C18 witness: an export has succeeded, and the table, its path and the
\* last result are what they were when it began.
C18_Witness ==
    \E t \in Threads :
        /\ AtExit(t, "export_last_result") /\ result[t].kind = "ok"
        /\ df # None /\ last_result # None /\ last_result # df
        /\ <<df, last_result, csv_path>> = SubSeq(snap[t].state, 1, 3)

\* csv_path is present exactly when df is, and last_result only if df is.
TableFields ==
    /\ csv_path # None <=> df # None
    /\ last_result # None => df # None

\* A table that was loaded when a call began is still loaded, and a load
\* that failed has kept the table and its path.
TableKept ==
    \A t \in Threads :
        /\ InCritical(t) /\ snap[t].state[1] # None => df # None
        /\ AtExit(t, "load_csv") /\ Failed(result[t]) =>
              df = snap[t].state[1] /\ csv_path = snap[t].state[3]

\* C19 as stated: in every reachable state csv_path is present exactly when
\* df is and last_result only if df is, and a loaded table is never absent
\* again.
C19_Original == TableFields /\ TableKept

\* C19 amended: the same, in every state in which no load_csv stands
\* between its lines 142 and 143, which are all the states in which the
\* lock is free.
C19_TableInvariant ==
    /\ (\A t \in Threads : pc[t] # "load143") => TableFields
    /\ ~lock => TableFields
    /\ TableKept

\* C19 witness: a load fails while a table is loaded and a last result is
\* present.
C19_Witness ==
    \E t \in Threads :
        /\ AtExit(t, "load_csv") /\ Failed(result[t])
        /\ snap[t].state[1] # None /\ snap[t].state[2] # None


(***************************************************************************)
(* Limits.                                                                 *)
(***************************************************************************)
\* The rows or limit argument of a preview, filter_rows or
\* groupby_aggregate call.
LimitOf(c) == IF c.op = "preview" THEN c.rows ELSE c.limit

\* The whole result of a finished preview, filter_rows or groupby_aggregate
\* call has the size that the call's arguments other than the limit and the
\* loaded table determine.
FullSize(t) ==
    CASE call[t].op = "preview" -> Len(Get(df).rows)
      [] call[t].op = "filter_rows" ->
            Cardinality(Selected(Get(df), call[t].filters, call[t].logic))
      [] call[t].op = "groupby_aggregate" ->
            Cardinality(GroupKeys(Get(df), call[t].group_columns))

\* C20: for preview, filter_rows and groupby_aggregate the limit cuts only
\* the rows returned, to the first min(limit, row_count) and to none when
\* limit <= 0; row_count and last_result are the whole result, and an
\* export_last_result that follows writes all of its rows.
C20_LimitOnlyCutsReply ==
    \A t \in Threads :
        /\ /\ pc[t] = "exit" /\ result[t].kind = "ok"
           /\ call[t].op \in {"preview", "filter_rows", "groupby_aggregate"}
           => /\ Len(Get(last_result).rows) = FullSize(t)
              /\ result[t].rows = FirstRows(Get(last_result).rows, LimitOf(call[t]))
              /\ call[t].op # "preview" => result[t].row_count = FullSize(t)
        /\ /\ AtExit(t, "export_last_result") /\ result[t].kind = "ok"
           => /\ Len(files[Get(result[t].path)].lines) = Len(Get(produced).rows)
              /\ result[t].row_count = Len(Get(produced).rows)

\* C20 witness: a grouping of several groups was asked for with limit 0.
C20_Witness ==
    \E t \in Threads :
        /\ Grouped(t) /\ call[t].limit = 0
        /\ result[t].rows = << >> /\ result[t].row_count > 2

\* C20 second case: the export that follows wrote more rows than any call
\* with a limit of 2 returned.
C20_ExportWitness ==
    \E t \in Threads :
        /\ AtExit(t, "export_last_result") /\ result[t].kind = "ok"
        /\ Get(produced).cols = <<"Status", "Amount_sum", "Amount_count">>
        /\ result[t].row_count = 3

=============================================================================
